---- MODULE Spec2Model ----
(***************************************************************************)
(* Model of the video-object-removal worker (src/handler.py): one          *)
(* invocation of handler(), from request parsing to the finally block,     *)
(* with the collaborators (object storage, ffprobe/ffmpeg, the ComfyUI     *)
(* HTTP API, the file system) as nondeterministic environments.            *)
(*                                                                         *)
(* Optional values (Python None) are sets of at most one element: None is  *)
(* {} and a present value v is {v}.  Frame rates and durations are in      *)
(* thousandths (30000 is 30 fps, 15001 is 15.001 s), the clock in seconds. *)
(***************************************************************************)
EXTENDS Integers, Sequences, FiniteSets, TLC

VARIABLES
    env,            \* the S3_* environment variables read at import (lines 55-58)
    pc,             \* position of the invocation inside handler()
    req,            \* the parsed request: input_key, timeout_sec
    workdir_made,   \* workdir.mkdir() has run in this invocation (line 374)
    workdir_exists, \* /tmp/jobs/{job_id} is on disk
    cmds,           \* the subprocess commands sh() has run, in order
    profile,        \* (fps_in, dur_in) returned by probe_video(src) (optional)
    pre_info,       \* result of preprocess_video (a set of at most one info dict)
    submit_resp,    \* the engine's answer to POST /prompt (optional)
    prompt_id,      \* the job handle returned by comfy_post_prompt (optional)
    clock,          \* time.time()
    wait_t0,        \* t0 of wait_until_done (line 279)
    queries,        \* number of comfy_get_history calls issued
    last_resp,      \* response of the latest comfy_get_history call (optional)
    elapsed,        \* time.time() - t0 at the latest deadline test (optional)
    result,         \* value returned by wait_until_done (optional history entry)
    out_local,      \* path returned by find_latest_output (optional)
    uploads,        \* number of s3.upload_file calls that were issued
    err,            \* the exception propagating out of handler (kind "none": none)
    ret,            \* how the invocation ended: none, error_object, result, raised
    rcs,            \* whether each command of cmds exited with status 0, in order
    wf0,            \* the workflow document as read from WORKFLOW_PATH (optional)
    wf,             \* the workflow document after the three bindings (optional)
    listing,        \* the output directory as find_latest_output saw it (optional)
    probe_raw,      \* probe_video alone: the JSON ffprobe printed (optional)
    probe_res,      \* probe_video alone: the pair it returned (optional)
    scan_dir,       \* find_latest_output alone: the output directory (optional)
    scan_res,       \* find_latest_output alone: its outcome (optional)
    jobs,           \* two concurrent invocations: their job ids and positions
    outdir,         \* two concurrent invocations: the shared output directory
    install         \* tools/install_custom_nodes.py: the state of main()

vars == <<env, pc, req, workdir_made, workdir_exists, cmds, profile, pre_info, submit_resp, prompt_id,
          clock, wait_t0, queries, last_resp, elapsed, result, out_local,
          uploads, err, ret, rcs, wf0, wf, listing,
          probe_raw, probe_res, scan_dir, scan_res, jobs, outdir, install>>

\* the variables of the specifications of single functions and of the
\* specification of two concurrent invocations
pureVars == <<probe_raw, probe_res, scan_dir, scan_res, jobs, outdir, install>>

None == {}
Some(x) == {x}
The(opt) == CHOOSE x \in opt : TRUE

-----------------------------------------------------------------------------
(* Bounds of the model *)

\* largest timeout_sec a request carries (the smallest is -1)
MaxTimeout == 2
\* longest time one comfy_get_history call takes, in seconds
MaxLatency == 1

-----------------------------------------------------------------------------
(* Configuration constants *)

FPS_CAP == 30
MAX_SECONDS == 15
\* 0.01 fps, the tolerance of need_fps, in thousandths
FpsEps == 10
\* 0.001 s, the tolerance of need_trim, in thousandths
DurEps == 1
\* default of wait_until_done's poll parameter, in seconds
Poll == 1
\* default of timeout_sec when params carries none
DefaultTimeout == 3600

JobId == "J"
Workdir == "/tmp/jobs/J"
LocalIn == "/tmp/jobs/J/in.mp4"
LocalPre == "/tmp/jobs/J/in_pre.mp4"
ComfyInputFile == "/comfyui/input/J.mp4"
OutputPrefix == "J_video-object-removal"

-----------------------------------------------------------------------------
(* probe_video: what ffprobe can report for a file *)

\* frame rates of the source file (absent, under, at and over the cap)
FpsIn == {None, Some(30000), Some(30010), Some(30011), Some(60000)}
\* durations of the source file (absent, under, at and over the maximum)
DurIn == {None, Some(15000), Some(15001), Some(15002), Some(20000)}
\* what the re-probe of the processed file can report
FpsOut == {None, Some(30000)}
DurOut == {None, Some(15000)}

ProbeCmd(path) ==
    [prog |-> "ffprobe", src |-> path, dst |-> "", t |-> None, vf_fps |-> None,
     cv |-> "", ca |-> "", faststart |-> FALSE]

-----------------------------------------------------------------------------
(* ffmpeg_trim_copy *)

TrimCmd(src, dst, max_seconds) ==
    [prog |-> "ffmpeg", src |-> src, dst |-> dst, t |-> Some(max_seconds),
     vf_fps |-> None, cv |-> "copy", ca |-> "copy", faststart |-> TRUE]

\* the dict ffmpeg_trim_copy returns, given the re-probe of dst
ffmpeg_trim_copy(dst, fps_out, dur_out) ==
    [path |-> dst, fps_out |-> fps_out, dur_out |-> dur_out,
     transcoded |-> FALSE, remuxed |-> TRUE]

-----------------------------------------------------------------------------
(* ffmpeg_downsample_encode *)

\* base += ["-t", ...] only "if max_seconds and max_seconds > 0"
EncodeLimit(max_seconds) ==
    IF max_seconds # None /\ The(max_seconds) # 0 /\ The(max_seconds) > 0
    THEN max_seconds ELSE None

EncodeCmd(src, dst, fps_cap, max_seconds, audio) ==
    [prog |-> "ffmpeg", src |-> src, dst |-> dst, t |-> EncodeLimit(max_seconds),
     vf_fps |-> Some(fps_cap), cv |-> "libx264", ca |-> audio, faststart |-> TRUE]

\* EncodeCmds running cmd2 whether or not cmd1 failed
EncodeCmds_Both(src, dst, fps_cap, max_seconds, cmd1_ok) ==
    <<EncodeCmd(src, dst, fps_cap, max_seconds, "copy"),
      EncodeCmd(src, dst, fps_cap, max_seconds, "aac")>>

\* the commands ffmpeg_downsample_encode runs: cmd1 (audio copy), and cmd2
\* (audio aac) only in the except branch, i.e. when cmd1 failed
EncodeCmds(src, dst, fps_cap, max_seconds, cmd1_ok) ==
    IF cmd1_ok
    THEN <<EncodeCmd(src, dst, fps_cap, max_seconds, "copy")>>
    ELSE <<EncodeCmd(src, dst, fps_cap, max_seconds, "copy"),
           EncodeCmd(src, dst, fps_cap, max_seconds, "aac")>>

\* the dict ffmpeg_downsample_encode returns, given the re-probe of dst
ffmpeg_downsample_encode(dst, fps_out, dur_out) ==
    [path |-> dst, fps_out |-> fps_out, dur_out |-> dur_out,
     transcoded |-> TRUE, remuxed |-> FALSE]

-----------------------------------------------------------------------------
(* preprocess_video *)

\* need_fps without the tolerance
need_fps_NoEps(fps_in, fps_cap) ==
    fps_in # None /\ The(fps_in) > fps_cap * 1000

\* fps_in is not None and fps_in > (fps_cap + 0.01)
need_fps(fps_in, fps_cap) ==
    fps_in # None /\ The(fps_in) > fps_cap * 1000 + FpsEps

\* dur_in is not None and dur_in > (max_seconds + 0.001)
need_trim(dur_in, max_seconds) ==
    dur_in # None /\ The(dur_in) > max_seconds * 1000 + DurEps

\* PreBranch without the trim-only exit of line 212
PreBranch_NoTrimOnly(fps_in, dur_in, fps_cap, max_seconds) ==
    IF ~need_fps(fps_in, fps_cap) /\ ~need_trim(dur_in, max_seconds) THEN "pass"
    ELSE "encode"

\* the three exits of preprocess_video: line 208, line 212, line 219
PreBranch(fps_in, dur_in, fps_cap, max_seconds) ==
    IF ~need_fps(fps_in, fps_cap) /\ ~need_trim(dur_in, max_seconds) THEN "pass"
    ELSE IF need_trim(dur_in, max_seconds) /\ ~need_fps(fps_in, fps_cap) THEN "trim"
    ELSE "encode"

\* the info dict as built at lines 196-206
PreInfo0(src, fps_cap, max_seconds, fps_in, dur_in) ==
    [fps_in |-> fps_in, dur_in |-> dur_in, fps_cap |-> fps_cap,
     max_seconds |-> max_seconds, downsampled |-> FALSE, trimmed |-> FALSE,
     transcoded |-> FALSE, remuxed |-> FALSE, path |-> src]

\* dict.update: the keys of out win
Update(info, out) == out @@ info

\* EncodeArg passing the limit whether or not a trim is needed
EncodeArg_Always(dur_in, max_seconds) == Some(max_seconds)

\* the max_seconds argument of the call at line 219
EncodeArg(dur_in, max_seconds) ==
    IF need_trim(dur_in, max_seconds) THEN Some(max_seconds) ELSE None

\* the commands of the branch taken, after the probe of src.  cmd1_ok tells
\* whether the first re-encode command succeeded
PreCmds(src, dst, fps_cap, max_seconds, fps_in, dur_in, cmd1_ok) ==
    LET b == PreBranch(fps_in, dur_in, fps_cap, max_seconds) IN
    IF b = "pass" THEN << >>
    ELSE IF b = "trim" THEN <<TrimCmd(src, dst, max_seconds)>>
    ELSE EncodeCmds(src, dst, fps_cap, EncodeArg(dur_in, max_seconds), cmd1_ok)

\* the dict preprocess_video returns when no subprocess failed
preprocess_video(src, dst, fps_cap, max_seconds, fps_in, dur_in, fps_out, dur_out) ==
    LET b == PreBranch(fps_in, dur_in, fps_cap, max_seconds)
        info == PreInfo0(src, fps_cap, max_seconds, fps_in, dur_in)
    IN  IF b = "pass" THEN info
        ELSE IF b = "trim"
        THEN [Update(info, ffmpeg_trim_copy(dst, fps_out, dur_out))
                EXCEPT !.trimmed = TRUE]
        ELSE [Update(info, ffmpeg_downsample_encode(dst, fps_out, dur_out))
                EXCEPT !.downsampled = TRUE, !.transcoded = TRUE,
                       !.trimmed = IF need_trim(dur_in, max_seconds) THEN TRUE ELSE @]

-----------------------------------------------------------------------------
(* The ComfyUI HTTP API *)

\* "status" objects of a history entry: the status dict's completed and
\* status_str keys, each optional
StEmpty == [completed |-> None, status_str |-> None]
StPending == [completed |-> Some(FALSE), status_str |-> Some("pending")]
StRunning == [completed |-> Some(FALSE), status_str |-> Some("running")]
StCompleted == [completed |-> Some(TRUE), status_str |-> Some("success")]
StCompletedFlag == [completed |-> Some(TRUE), status_str |-> None]
StSuccessStr == [completed |-> None, status_str |-> Some("success")]
StError == [completed |-> Some(FALSE), status_str |-> Some("error")]
StErrorStr == [completed |-> None, status_str |-> Some("error")]

Statuses == {StEmpty, StPending, StRunning, StCompleted, StCompletedFlag,
             StSuccessStr, StError, StErrorStr}

\* what the engine reports as outputs in an entry (opaque here)
\* hist[prompt_id]["outputs"]: the entries the engine reports for node 13
MetaNone == {}
MetaVideo ==
    {[node |-> "13", filename |-> <<"J", "_video-object-removal", "_00001", ".mp4">>,
      subfolder |-> "", type |-> "output"]}
OutputsValues == {MetaNone, MetaVideo}

Entries == [status : Statuses, outputs : OutputsValues]

\* GET /history/{prompt_id}: a failure (network error or non-success HTTP
\* status, so that requests raises), or a JSON object with or without an
\* entry under prompt_id
QueryFailure == [ok |-> FALSE, entry |-> None]
HistoryResponses ==
    {QueryFailure, [ok |-> TRUE, entry |-> None]}
    \cup {[ok |-> TRUE, entry |-> Some(e)] : e \in Entries}

\* POST /prompt: a failure, or a JSON body with or without "prompt_id"
SubmitResponses ==
    {[ok |-> FALSE, prompt_id |-> None],
     [ok |-> TRUE, prompt_id |-> None],
     [ok |-> TRUE, prompt_id |-> Some("P")]}

\* comfy_post_prompt reading the handle with .get("prompt_id")
comfy_post_prompt_Get(resp) ==
    IF ~resp.ok THEN [raised |-> "HTTPError", value |-> None]
    ELSE [raised |-> "none", value |-> resp.prompt_id]

\* r.raise_for_status(); return r.json()["prompt_id"]
comfy_post_prompt(resp) ==
    IF ~resp.ok THEN [raised |-> "HTTPError", value |-> None]
    ELSE IF resp.prompt_id = None THEN [raised |-> "KeyError", value |-> None]
    ELSE [raised |-> "none", value |-> resp.prompt_id]

-----------------------------------------------------------------------------
(* wait_until_done *)

\* IsCompleted accepting any entry of the handle
IsCompleted_AnyEntry(status) == TRUE

\* status.get("completed", False) or status.get("status_str") == "success"
IsCompleted(status) ==
    \/ status.completed = Some(TRUE)
    \/ status.status_str = Some("success")

\* IsError with the test of line 286 dropped
IsError_Never(status) == FALSE

\* status.get("status_str") == "error"
IsError(status) == status.status_str = Some("error")

\* time.time() - t0 > timeout_sec
DeadlinePassed(now, t0, timeout_sec) == now - t0 > timeout_sec

\* WaitVerdict with the deadline tested before the status
WaitVerdict_DeadlineFirst(resp, now, t0, timeout_sec) ==
    IF ~resp.ok THEN "raise_query"
    ELSE IF DeadlinePassed(now, t0, timeout_sec) THEN "raise_timeout"
    ELSE IF resp.entry # None /\ IsCompleted(The(resp.entry).status) THEN "return"
    ELSE IF resp.entry # None /\ IsError(The(resp.entry).status) THEN "raise_error"
    ELSE "sleep"

\* one pass through the loop body, lines 281-290, up to the sleep: what the
\* pass does with the response of comfy_get_history
WaitVerdict(resp, now, t0, timeout_sec) ==
    IF ~resp.ok THEN "raise_query"
    ELSE IF resp.entry # None /\ IsCompleted(The(resp.entry).status) THEN "return"
    ELSE IF resp.entry # None /\ IsError(The(resp.entry).status) THEN "raise_error"
    ELSE IF DeadlinePassed(now, t0, timeout_sec) THEN "raise_timeout"
    ELSE "sleep"

-----------------------------------------------------------------------------
(* The workflow document and its binding, lines 410-425 *)

\* A node: its class_type, whether it has an "inputs" key, and its inputs
\* (slot name to value)
Node(class_type, inputs) ==
    [class_type |-> class_type, has_inputs |-> TRUE, inputs |-> inputs]
NodeWithoutInputs(class_type) ==
    [class_type |-> class_type, has_inputs |-> FALSE, inputs |-> << >>]

LoaderNode == Node("VHS_LoadVideo", [video |-> "input.mp4", force_rate |-> "0"])
TextNode == Node("PrimitiveStringMultiline", [string |-> "default"])
WriterNode == Node("VHS_VideoCombine",
                   [filename_prefix |-> "AnimateDiff", frame_rate |-> "30"])
OtherNode == Node("Florence2Run", [text_input |-> "x", task |-> "caption"])

\* a document: node identifier to node
Doc(ids, nodes) == [n \in ids |-> nodes[n]]

\* the template with the three nodes under the identifiers the code expects
TplStandard ==
    Doc({"25", "30", "13", "7"},
        [n \in {"25", "30", "13", "7"} |->
            IF n = "25" THEN LoaderNode ELSE IF n = "30" THEN TextNode
            ELSE IF n = "13" THEN WriterNode ELSE OtherNode])
\* a revision of the template in which the identifiers have shifted
TplShifted ==
    Doc({"26", "31", "14", "7"},
        [n \in {"26", "31", "14", "7"} |->
            IF n = "26" THEN LoaderNode ELSE IF n = "31" THEN TextNode
            ELSE IF n = "14" THEN WriterNode ELSE OtherNode])
\* a template with no video loader, under no identifier
TplNoLoader ==
    Doc({"30", "13", "7"},
        [n \in {"30", "13", "7"} |->
            IF n = "30" THEN TextNode
            ELSE IF n = "13" THEN WriterNode ELSE OtherNode])
\* a template with the loader only: no output writer, and under "30" a node
\* that has no "inputs" key
TplLoaderOnly ==
    Doc({"25", "30", "7"},
        [n \in {"25", "30", "7"} |->
            IF n = "25" THEN LoaderNode
            ELSE IF n = "30" THEN NodeWithoutInputs("Note") ELSE OtherNode])

Templates == {TplStandard, TplShifted, TplNoLoader, TplLoaderOnly}

\* d[k] = v on a dict: the key is added when it is not there
SetSlot(inputs, slot, value) ==
    [k \in DOMAIN inputs \cup {slot} |-> IF k = slot THEN value ELSE inputs[k]]

\* BindSlot replacing the inputs of the node instead of setting one slot
BindSlot_ReplaceInputs(doc, id, slot, value) ==
    IF id \in DOMAIN doc /\ doc[id].has_inputs
    THEN [doc EXCEPT ![id].inputs = SetSlot(<< >>, slot, value)]
    ELSE doc

\* if id in wf and "inputs" in wf[id]: wf[id]["inputs"][slot] = value
BindSlot(doc, id, slot, value) ==
    IF id \in DOMAIN doc /\ doc[id].has_inputs
    THEN [doc EXCEPT ![id].inputs = SetSlot(@, slot, value)]
    ELSE doc

\* the three bindings of lines 416-425, in order
BindWorkflow(doc, video, text, prefix) ==
    BindSlot(BindSlot(BindSlot(doc, "25", "video", video),
                      "30", "string", text),
             "13", "filename_prefix", prefix)

\* comfy_input_file.name
ComfyInputName == "J.mp4"

-----------------------------------------------------------------------------
(* The engine's output directory and find_latest_output, lines 293-316 *)

\* A job identifier and a file name are sequences of tokens (their
\* concatenation is the string), so that startswith and endswith are computed
JobTokens == <<"J">>
Suffix == "_video-object-removal"

\* line 412: f"{job_id}_video-object-removal"
output_prefix(job) == job \o <<Suffix>>

\* str.startswith
StartsWith(name, prefix) ==
    /\ Len(name) >= Len(prefix)
    /\ SubSeq(name, 1, Len(prefix)) = prefix

\* str.lower on the last token of a name
Lower(tok) == IF tok = ".MP4" THEN ".mp4" ELSE tok

\* fn.lower().endswith(".mp4")
EndsWithMp4(name) == Len(name) > 0 /\ Lower(name[Len(name)]) = ".mp4"

\* A file below COMFY_OUTPUT_DIR: its name, whether it lies in a subfolder,
\* its st_mtime, and whether stat on it succeeds
File(name, sub, mtime, stat_ok) ==
    [name |-> name, sub |-> sub, mtime |-> mtime, stat_ok |-> stat_ok]

F1 == File(output_prefix(JobTokens) \o <<"_00001", ".mp4">>, FALSE, 1, TRUE)
F2 == File(output_prefix(JobTokens) \o <<"_00002", ".mp4">>, FALSE, 2, TRUE)
FUpper == File(output_prefix(JobTokens) \o <<"_00003", ".MP4">>, FALSE, 2, TRUE)
FPng == File(output_prefix(JobTokens) \o <<"_00001", ".png">>, FALSE, 3, TRUE)
FOther == File(output_prefix(<<"K">>) \o <<"_00001", ".mp4">>, FALSE, 3, TRUE)
FSub == File(output_prefix(JobTokens) \o <<"_00001", ".mp4">>, TRUE, 2, TRUE)
FGone == File(output_prefix(JobTokens) \o <<"_00004", ".mp4">>, FALSE, 4, FALSE)

\* the directory: whether it is a directory, and the files below it
Dir(is_dir, files) == [is_dir |-> is_dir, files |-> files]
Listings ==
    {Dir(FALSE, {}), Dir(TRUE, {FPng, FOther}), Dir(TRUE, {F1, F2, FOther, FPng})}

\* every directory over the files above
FileUniverse == {F1, F2, FUpper, FPng, FOther, FSub, FGone}
AllListings == {Dir(FALSE, {})} \cup {Dir(TRUE, S) : S \in SUBSET FileUniverse}

\* os.listdir(COMFY_OUTPUT_DIR): the entries of the directory itself
ListDir(dir) == {f \in dir.files : ~f.sub}

\* the files the loop of lines 300-312 compares: the prefix and the extension
\* match and stat succeeds
Candidates(prefix, dir) ==
    {f \in ListDir(dir) :
        /\ StartsWith(f.name, prefix)
        /\ EndsWithMp4(f.name)
        /\ f.stat_ok
        /\ f.mtime > -1}

\* find_latest_output taking the newest of all the files of the directory
find_latest_output_AnyName(prefix, dir) ==
    IF ~dir.is_dir THEN {}
    ELSE {f \in ListDir(dir) : \A g \in ListDir(dir) : g.mtime <= f.mtime}

\* find_latest_output: the files it can return, none when it raises. With
\* "mt > best_mtime" the first of several newest files in the order of
\* os.listdir wins, and that order is arbitrary
find_latest_output(prefix, dir) ==
    IF ~dir.is_dir THEN {}
    ELSE {f \in Candidates(prefix, dir) :
             \A g \in Candidates(prefix, dir) : g.mtime <= f.mtime}

-----------------------------------------------------------------------------
(* handler: state after import, and the requests it is handed *)

NoErr == [kind |-> "none", origin |-> "", payload |-> None, handle |-> None]
Raise(kind, origin) ==
    [kind |-> kind, origin |-> origin, payload |-> None, handle |-> None]

\* the four S3_* variables: TRUE when set to a non-empty value
EnvValues ==
    [S3_ENDPOINT_URL : BOOLEAN, S3_BUCKET : BOOLEAN,
     S3_ACCESS_KEY_ID : BOOLEAN, S3_SECRET_ACCESS_KEY : BOOLEAN]

\* input_key of the request: missing, empty, or a key
InputKeys == {None, Some(""), Some("inputs/J/video.mp4")}
\* params.timeout_sec of the request, when given
TimeoutInputs == {Some(t) : t \in -1 .. MaxTimeout}
\* remove_text of the request: missing, blank, or a text
RemoveTextInputs == {None, Some("   "), Some(" person ")}

\* int(params.get("timeout_sec", 3600))
ParseTimeout(raw) == IF raw = None THEN DefaultTimeout ELSE The(raw)

\* str.strip() on the texts of RemoveTextInputs
Strip(str) == IF str = "   " THEN "" ELSE IF str = " person " THEN "person" ELSE str

\* (params.get("remove_text") or inp.get("remove_text") or "").strip() or "object"
ParseRemoveText(raw) ==
    IF raw = None \/ Strip(The(raw)) = "" THEN "object" ELSE Strip(The(raw))

\* The requests handed to handler.  timeout_bad: params.timeout_sec is given
\* but is no number (a word, null), so that int() raises.  A request that
\* passes validation carries a timeout_sec (the default of 3600 s would need
\* 3600 polls) and the text " person "
Requests ==
    {r \in [input_key : InputKeys, timeout_sec : TimeoutInputs \cup {None},
            timeout_bad : BOOLEAN, remove_text : RemoveTextInputs] :
        /\ r.timeout_bad => r.timeout_sec = None
        /\ (r.input_key = Some("inputs/J/video.mp4") /\ ~r.timeout_bad) =>
              (r.timeout_sec # None /\ r.remove_text = Some(" person "))}

\* "not input_key": None and the empty string are both falsy
MissingInputKey(input_key) == input_key = None \/ input_key = Some("")

\* s3_client(): the four _require_env calls, lines 249-252
s3_client_ok(e) ==
    e.S3_ENDPOINT_URL /\ e.S3_BUCKET /\ e.S3_ACCESS_KEY_ID /\ e.S3_SECRET_ACCESS_KEY

\* the handler before an invocation enters it
HandlerIdle ==
    /\ pc = "idle"
    /\ req = [input_key |-> None, timeout_sec |-> DefaultTimeout,
              remove_text |-> "object"]
    /\ workdir_made = FALSE
    /\ workdir_exists = FALSE
    /\ cmds = << >>
    /\ profile = None
    /\ pre_info = None
    /\ submit_resp = None
    /\ prompt_id = None
    /\ clock = 0
    /\ wait_t0 = 0
    /\ queries = 0
    /\ last_resp = None
    /\ elapsed = None
    /\ result = None
    /\ out_local = None
    /\ uploads = 0
    /\ err = NoErr
    /\ ret = "none"
    /\ rcs = << >>
    /\ wf0 = None
    /\ wf = None
    /\ listing = None

Init ==
    /\ env \in EnvValues
    /\ HandlerIdle
    /\ probe_raw = None
    /\ probe_res = None
    /\ scan_dir = None
    /\ scan_res = None
    /\ jobs = << >>
    /\ outdir = {}
    /\ install = None

\* an exception raised inside the try block: control goes to the finally block
Throw(e) ==
    /\ err' = e
    /\ pc' = "finally"

\* lines 352-370: parse the request (int() of a timeout_sec that is no
\* number raises at line 361), return the error object when input_key is
\* missing, require S3_BUCKET
Enter ==
    /\ pc = "idle"
    /\ \E r \in Requests :
         IF r.timeout_bad
         THEN /\ req' = [input_key |-> r.input_key, timeout_sec |-> DefaultTimeout,
                         remove_text |-> ParseRemoveText(r.remove_text)]
              /\ ret' = "raised"
              /\ pc' = "done"
              /\ err' = Raise("ValueError", "timeout_sec")
         ELSE
         /\ req' = [input_key |-> r.input_key,
                    timeout_sec |-> ParseTimeout(r.timeout_sec),
                    remove_text |-> ParseRemoveText(r.remove_text)]
         /\ IF MissingInputKey(r.input_key)
            THEN /\ ret' = "error_object"
                 /\ pc' = "done"
                 /\ err' = err
            ELSE IF ~env.S3_BUCKET
            THEN /\ ret' = "raised"
                 /\ pc' = "done"
                 /\ err' = Raise("RuntimeError", "require_env")
            ELSE /\ ret' = ret
                 /\ pc' = "entered"
                 /\ err' = err
    /\ UNCHANGED <<rcs, wf0, wf, listing>>
    /\ UNCHANGED pureVars
    /\ UNCHANGED <<env, workdir_made, workdir_exists, cmds, profile, pre_info, submit_resp, prompt_id,
                   clock, wait_t0, queries, last_resp, elapsed, result,
                   out_local, uploads>>

\* lines 373-377: workdir.mkdir(parents=True, exist_ok=True)
MakeWorkdir ==
    /\ pc = "entered"
    /\ workdir_made' = TRUE
    /\ workdir_exists' = TRUE
    /\ pc' = "workdir"
    /\ UNCHANGED <<rcs, wf0, wf, listing>>
    /\ UNCHANGED pureVars
    /\ UNCHANGED <<env, req, cmds, profile, pre_info, submit_resp, prompt_id, clock, wait_t0, queries,
                   last_resp, elapsed, result, out_local, uploads, err, ret>>

\* lines 379-382: s3 = s3_client(), before the try statement is entered.  An
\* exception here leaves handler directly: no finally block encloses it.
\* boto3.client itself may also raise (client_ok)
MakeS3Client ==
    /\ pc = "workdir"
    /\ \E client_ok \in BOOLEAN :
         IF s3_client_ok(env) /\ client_ok
         THEN /\ pc' = "try"
              /\ UNCHANGED <<err, ret>>
         ELSE /\ pc' = "done"
              /\ ret' = "raised"
              /\ err' = IF s3_client_ok(env)
                        THEN Raise("BotoError", "s3_client")
                        ELSE Raise("RuntimeError", "s3_client")
    /\ UNCHANGED <<rcs, wf0, wf, listing>>
    /\ UNCHANGED pureVars
    /\ UNCHANGED <<env, req, workdir_made, workdir_exists, cmds, profile, pre_info,
                   submit_resp, prompt_id, clock, wait_t0, queries, last_resp, elapsed,
                   result, out_local, uploads>>

\* line 387: s3.download_file
Download ==
    /\ pc = "try"
    /\ \E ok \in BOOLEAN :
         IF ok THEN pc' = "downloaded" /\ err' = err
         ELSE Throw(Raise("StorageError", "download"))
    /\ UNCHANGED <<rcs, wf0, wf, listing>>
    /\ UNCHANGED pureVars
    /\ UNCHANGED <<env, req, workdir_made, workdir_exists, cmds, profile, pre_info,
                   submit_resp, prompt_id, clock, wait_t0, queries, last_resp, elapsed,
                   result, out_local, uploads, ret>>

\* p.returncode of a command
Rc(ok) == IF ok THEN 0 ELSE 1

\* the return codes of the ffmpeg commands run, in the order they were run
RunRcs(run, cmd1_ok, cmd2_ok) ==
    [i \in 1 .. Len(run) |-> IF i = 1 THEN Rc(cmd1_ok) ELSE Rc(cmd2_ok)]

\* line 85: RuntimeError(f"Command failed: {cmd}\nSTDERR:\n{p.stderr}")
CommandFailed(origin, cmd) ==
    [Raise("RuntimeError", origin) EXCEPT !.payload = Some(cmd)]

\* line 394: preprocess_video(local_in, local_pre, FPS_CAP, MAX_SECONDS).
\* sh() raises when a command exits non-zero: the probe of src (line 191),
\* the trim (line 139), the second re-encode (line 177), the re-probe of dst
\* (lines 140, 179).  A failure of the first re-encode is caught (line 165).
\* cmd1_ok is the outcome of the branch's first ffmpeg command, cmd2_ok that
\* of the second re-encode command
Preprocess ==
    /\ pc = "downloaded"
    /\ \E probe_ok \in BOOLEAN, fps_in \in FpsIn, dur_in \in DurIn,
          cmd1_ok \in BOOLEAN, cmd2_ok \in BOOLEAN, reprobe_ok \in BOOLEAN,
          fps_out \in FpsOut, dur_out \in DurOut :
         LET b == PreBranch(fps_in, dur_in, FPS_CAP, MAX_SECONDS)
             run == PreCmds(LocalIn, LocalPre, FPS_CAP, MAX_SECONDS,
                            fps_in, dur_in, cmd1_ok)
             failed == \/ b = "trim" /\ ~cmd1_ok
                       \/ b = "encode" /\ ~cmd1_ok /\ ~cmd2_ok
             info == preprocess_video(LocalIn, LocalPre, FPS_CAP, MAX_SECONDS,
                                      fps_in, dur_in, fps_out, dur_out)
         IN
         IF ~probe_ok
         THEN /\ cmds' = cmds \o <<ProbeCmd(LocalIn)>>
              /\ rcs' = rcs \o <<1>>
              /\ UNCHANGED <<profile, pre_info>>
              /\ Throw(CommandFailed("ffprobe", ProbeCmd(LocalIn)))
         ELSE
         /\ profile' = Some([fps_in |-> fps_in, dur_in |-> dur_in])
         /\ IF b = "pass"
            THEN /\ cmds' = cmds \o <<ProbeCmd(LocalIn)>>
                 /\ rcs' = rcs \o <<0>>
                 /\ pre_info' = Some(info)
                 /\ pc' = "preprocessed"
                 /\ err' = err
            ELSE IF failed
            THEN /\ cmds' = cmds \o <<ProbeCmd(LocalIn)>> \o run
                 /\ rcs' = rcs \o <<0>> \o RunRcs(run, cmd1_ok, cmd2_ok)
                 /\ pre_info' = pre_info
                 /\ Throw(CommandFailed("ffmpeg", run[Len(run)]))
            ELSE IF ~reprobe_ok
            THEN /\ cmds' = cmds \o <<ProbeCmd(LocalIn)>> \o run
                                 \o <<ProbeCmd(LocalPre)>>
                 /\ rcs' = rcs \o <<0>> \o RunRcs(run, cmd1_ok, cmd2_ok) \o <<1>>
                 /\ pre_info' = pre_info
                 /\ Throw(CommandFailed("ffprobe", ProbeCmd(LocalPre)))
            ELSE /\ cmds' = cmds \o <<ProbeCmd(LocalIn)>> \o run
                                 \o <<ProbeCmd(LocalPre)>>
                 /\ rcs' = rcs \o <<0>> \o RunRcs(run, cmd1_ok, cmd2_ok) \o <<0>>
                 /\ pre_info' = Some(info)
                 /\ pc' = "preprocessed"
                 /\ err' = err
    /\ UNCHANGED <<wf0, wf, listing>>
    /\ UNCHANGED pureVars
    /\ UNCHANGED <<env, req, workdir_made, workdir_exists, submit_resp, prompt_id, clock,
                   wait_t0, queries, last_resp, elapsed, result, out_local,
                   uploads, ret>>

\* lines 399-401: copy the preprocessed video into the engine's input area
CopyInput ==
    /\ pc = "preprocessed"
    /\ \E ok \in BOOLEAN :
         IF ok THEN pc' = "copied" /\ err' = err
         ELSE Throw(Raise("OSError", "copy"))
    /\ UNCHANGED <<rcs, wf0, wf, listing>>
    /\ UNCHANGED pureVars
    /\ UNCHANGED <<env, req, workdir_made, workdir_exists, cmds, profile, pre_info,
                   submit_resp, prompt_id, clock, wait_t0, queries, last_resp,
                   elapsed, result, out_local, uploads, ret>>

\* lines 407-427: load the workflow template and bind the job's values.
\* A missing file raises at line 408, a file that is no JSON at line 410
LoadWorkflow ==
    /\ pc = "copied"
    /\ \E exists \in BOOLEAN, json_ok \in BOOLEAN, tpl \in Templates :
         IF ~exists
         THEN /\ Throw(Raise("RuntimeError", "workflow"))
              /\ UNCHANGED <<wf0, wf>>
         ELSE IF ~json_ok
         THEN /\ Throw(Raise("JSONDecodeError", "workflow"))
              /\ UNCHANGED <<wf0, wf>>
         ELSE /\ wf0' = Some(tpl)
              /\ wf' = Some(BindWorkflow(tpl, ComfyInputName, req.remove_text,
                                         OutputPrefix))
              /\ pc' = "bound"
              /\ err' = err
    /\ UNCHANGED <<rcs, listing>>
    /\ UNCHANGED pureVars
    /\ UNCHANGED <<env, req, workdir_made, workdir_exists, cmds, profile, pre_info,
                   submit_resp, prompt_id, clock, wait_t0, queries, last_resp,
                   elapsed, result, out_local, uploads, ret>>

\* lines 433-436 and 279: prompt_id = comfy_post_prompt(wf), then
\* wait_until_done is entered and takes t0
Submit ==
    /\ pc = "bound"
    /\ \E r \in SubmitResponses :
         LET res == comfy_post_prompt(r) IN
         /\ submit_resp' = Some(r)
         /\ IF res.raised # "none"
            THEN /\ Throw(Raise(res.raised, "comfy_post_prompt"))
                 /\ UNCHANGED <<prompt_id, wait_t0>>
            ELSE /\ prompt_id' = res.value
                 /\ wait_t0' = clock
                 /\ pc' = "polling"
                 /\ err' = err
    /\ UNCHANGED <<rcs, wf0, wf, listing>>
    /\ UNCHANGED pureVars
    /\ UNCHANGED <<env, req, workdir_made, workdir_exists, cmds, profile, pre_info,
                   clock, queries, last_resp, elapsed, result, out_local,
                   uploads, ret>>

\* lines 280-290: one pass of the loop of wait_until_done.  The query takes
\* lat seconds; the deadline is tested after it; the sleep ends the pass
PollOnce ==
    /\ pc = "polling"
    /\ \E lat \in 0 .. MaxLatency, r \in HistoryResponses :
         LET now == clock + lat
             v == WaitVerdict(r, now, wait_t0, req.timeout_sec)
         IN
         /\ queries' = queries + 1
         /\ last_resp' = Some(r)
         /\ clock' = IF v = "sleep" THEN now + Poll ELSE now
         /\ elapsed' = IF v \in {"sleep", "raise_timeout"}
                       THEN Some(now - wait_t0) ELSE elapsed
         /\ result' = IF v = "return" THEN r.entry ELSE result
         /\ IF v = "return" THEN pc' = "completed" /\ err' = err
            ELSE IF v = "sleep" THEN pc' = "polling" /\ err' = err
            ELSE IF v = "raise_error"
            THEN Throw([kind |-> "RuntimeError", origin |-> "wait_until_done",
                        payload |-> Some(The(r.entry).status), handle |-> None])
            ELSE IF v = "raise_timeout"
            THEN Throw([kind |-> "TimeoutError", origin |-> "wait_until_done",
                        payload |-> None, handle |-> prompt_id])
            ELSE Throw(Raise("HTTPError", "comfy_get_history"))
    /\ UNCHANGED <<rcs, wf0, wf, listing>>
    /\ UNCHANGED pureVars
    /\ UNCHANGED <<env, req, workdir_made, workdir_exists, cmds, profile, pre_info,
                   submit_resp, prompt_id, wait_t0, out_local, uploads, ret>>

\* line 443: out_local = find_latest_output(output_prefix)
FindOutput ==
    /\ pc = "completed"
    /\ \E dir \in Listings :
         /\ listing' = Some(dir)
         /\ IF find_latest_output(output_prefix(JobTokens), dir) # {}
            THEN /\ \E f \in find_latest_output(output_prefix(JobTokens), dir) :
                      out_local' = Some(f)
                 /\ pc' = "resolved"
                 /\ err' = err
            ELSE /\ out_local' = out_local
                 /\ Throw(Raise("RuntimeError", "find_latest_output"))
    /\ UNCHANGED <<rcs, wf0, wf>>
    /\ UNCHANGED pureVars
    /\ UNCHANGED <<env, req, workdir_made, workdir_exists, cmds, profile, pre_info,
                   submit_resp, prompt_id, clock, wait_t0, queries, last_resp,
                   elapsed, result, uploads, ret>>

\* lines 447-472: s3.upload_file, unlink of the output, return of the result
Upload ==
    /\ pc = "resolved"
    /\ uploads' = uploads + 1
    /\ \E ok \in BOOLEAN :
         IF ok
         THEN /\ ret' = "result"
              /\ pc' = "finally"
              /\ err' = err
         ELSE /\ ret' = ret
              /\ Throw(Raise("StorageError", "upload"))
    /\ UNCHANGED <<rcs, wf0, wf, listing>>
    /\ UNCHANGED pureVars
    /\ UNCHANGED <<env, req, workdir_made, workdir_exists, cmds, profile, pre_info,
                   submit_resp, prompt_id, clock, wait_t0, queries, last_resp,
                   elapsed, result, out_local>>

\* lines 474-476: shutil.rmtree(workdir, ignore_errors=True), then the return
\* value or the exception leaves handler
Finally ==
    /\ pc = "finally"
    /\ workdir_exists' = FALSE
    /\ pc' = "done"
    /\ ret' = IF err.kind # "none" THEN "raised" ELSE ret
    /\ UNCHANGED <<rcs, wf0, wf, listing>>
    /\ UNCHANGED pureVars
    /\ UNCHANGED <<env, req, workdir_made, cmds, profile, pre_info, submit_resp,
                   prompt_id, clock, wait_t0, queries, last_resp, elapsed,
                   result, out_local, uploads, err>>

Next ==
    \/ Enter
    \/ MakeWorkdir
    \/ MakeS3Client
    \/ Download
    \/ Preprocess
    \/ CopyInput
    \/ LoadWorkflow
    \/ Submit
    \/ PollOnce
    \/ FindOutput
    \/ Upload
    \/ Finally

Spec == Init /\ [][Next]_vars

\* handler is sequential code: whenever a step can be taken it is taken
FairSpec == Spec /\ WF_vars(Next)


-----------------------------------------------------------------------------
(* find_latest_output alone, over every directory of AllListings *)

EnvComplete == CHOOSE e \in EnvValues : s3_client_ok(e)

InitResolve ==
    /\ env = EnvComplete
    /\ HandlerIdle
    /\ probe_raw = None
    /\ probe_res = None
    /\ scan_dir \in {Some(dir) : dir \in AllListings}
    /\ scan_res = None
    /\ jobs = << >>
    /\ outdir = {}
    /\ install = None

\* scan_res: whether find_latest_output raised, and the path it returned
Resolve ==
    /\ scan_res = None
    /\ IF find_latest_output(output_prefix(JobTokens), The(scan_dir)) = {}
       THEN scan_res' = Some([raised |-> TRUE, file |-> None])
       ELSE \E f \in find_latest_output(output_prefix(JobTokens), The(scan_dir)) :
                scan_res' = Some([raised |-> FALSE, file |-> Some(f)])
    /\ UNCHANGED <<env, pc, req, workdir_made, workdir_exists, cmds, profile,
                   pre_info, submit_resp, prompt_id, clock, wait_t0, queries,
                   last_resp, elapsed, result, out_local, uploads, err, ret,
                   rcs, wf0, wf, listing, probe_raw, probe_res, scan_dir, jobs,
                   outdir, install>>

NextResolve == Resolve

SpecResolve == InitResolve /\ [][NextResolve]_vars
-----------------------------------------------------------------------------
(* Two invocations of handler on one worker, sharing the engine's directories *)

\* job identifiers a caller can send (line 355 takes any string)
JobIds == {<<"J">>, <<"K">>, <<"J", Suffix>>}
Invocations == {1, 2}

\* line 373: Path("/tmp/jobs") / job_id
WorkdirOf(job) == <<"/tmp/jobs/">> \o job
\* line 400: COMFY_INPUT_DIR / f"{job_id}.mp4"
InputFileOf(job) == <<"/comfyui/input/">> \o job \o <<".mp4">>
\* the file the engine writes for a job: the bound prefix, a counter, .mp4
EngineFile(job, owner, mtime) ==
    [name |-> output_prefix(job) \o <<"_00001", ".mp4">>, sub |-> FALSE,
     mtime |-> mtime, stat_ok |-> TRUE, owner |-> owner]

JobIdle == [id |-> None, pc |-> "idle", out |-> None]

InitConc ==
    /\ env = EnvComplete
    /\ HandlerIdle
    /\ probe_raw = None
    /\ probe_res = None
    /\ scan_dir = None
    /\ scan_res = None
    /\ jobs = [i \in Invocations |-> JobIdle]
    /\ outdir = {}
    /\ install = None

ConcUnchanged ==
    UNCHANGED <<env, pc, req, workdir_made, workdir_exists, cmds, profile,
                pre_info, submit_resp, prompt_id, wait_t0, queries, last_resp,
                elapsed, result, out_local, uploads, err, ret, rcs, wf0, wf,
                listing, probe_raw, probe_res, scan_dir, scan_res, install>>

\* lines 355-433: the invocation takes its job_id, makes its directory and
\* input file and submits the graph bound to its prefix
StartJob(i) ==
    /\ jobs[i].pc = "idle"
    /\ \E id \in JobIds :
         /\ \A k \in Invocations : jobs[k].id # Some(id)
         /\ jobs' = [jobs EXCEPT ![i] = [@ EXCEPT !.id = Some(id),
                                                    !.pc = "submitted"]]
    /\ UNCHANGED <<outdir, clock>>
    /\ ConcUnchanged

\* the engine writes the output of the invocation's graph and reports completed
EngineWrites(i) ==
    /\ jobs[i].pc = "submitted"
    /\ clock' = clock + 1
    /\ outdir' = outdir \cup {EngineFile(The(jobs[i].id), i, clock')}
    /\ jobs' = [jobs EXCEPT ![i].pc = "completed"]
    /\ ConcUnchanged

\* line 443: find_latest_output(output_prefix)
ResolveJob(i) ==
    /\ jobs[i].pc = "completed"
    /\ LET found == find_latest_output(output_prefix(The(jobs[i].id)),
                                       Dir(TRUE, outdir))
       IN  IF found = {}
           THEN jobs' = [jobs EXCEPT ![i].pc = "raised"]
           ELSE \E f \in found :
                    jobs' = [jobs EXCEPT ![i] = [@ EXCEPT !.out = Some(f),
                                                          !.pc = "resolved"]]
    /\ UNCHANGED <<outdir, clock>>
    /\ ConcUnchanged

\* lines 447-454: upload_file, then out_local.unlink()
UploadJob(i) ==
    /\ jobs[i].pc = "resolved"
    /\ outdir' = outdir \ {The(jobs[i].out)}
    /\ jobs' = [jobs EXCEPT ![i].pc = "uploaded"]
    /\ UNCHANGED clock
    /\ ConcUnchanged

NextConc ==
    \E i \in Invocations :
        \/ StartJob(i)
        \/ EngineWrites(i)
        \/ ResolveJob(i)
        \/ UploadJob(i)

SpecConc == InitConc /\ [][NextConc]_vars

-----------------------------------------------------------------------------
(* probe_video alone, lines 89-125 *)

\* A rate field of ffprobe's JSON: whether its text is a rational "num/den",
\* and the two numbers
Rate(text_ok, num, den) == [text_ok |-> text_ok, num |-> num, den |-> den]
RateTexts ==
    {Rate(FALSE, 0, 0), Rate(TRUE, 0, 0), Rate(TRUE, 0, 1), Rate(TRUE, 30, 0),
     Rate(TRUE, 30, 1), Rate(TRUE, 24, 1), Rate(TRUE, 30000, 1001)}
RateFields == {None} \cup {Some(r) : r \in RateTexts}

\* format.duration: whether its text is a number ("N/A" is not), and the
\* number in thousandths of a second
Duration(text_ok, millis) == [text_ok |-> text_ok, millis |-> millis]
DurationFields ==
    {None, Some(Duration(FALSE, 0)), Some(Duration(TRUE, 12500)),
     Some(Duration(TRUE, 20000))}

\* what ffprobe gave: its return code, whether stdout is JSON, the fields
ProbeOutputs ==
    [rc : {0, 1}, json_ok : BOOLEAN, avg_frame_rate : RateFields,
     r_frame_rate : RateFields, duration : DurationFields]

\* stream.get(...) or "0/0"
OrZeroRate(field) == IF field = None THEN Rate(TRUE, 0, 0) ELSE The(field)

\* fractions.Fraction(frac): ValueError on text that is no rational,
\* ZeroDivisionError on a zero denominator; a zero numerator gives 0/1
Fraction(r) ==
    IF ~r.text_ok \/ r.den = 0
    THEN [raised |-> TRUE, numerator |-> 0, denominator |-> 1]
    ELSE IF r.num = 0
    THEN [raised |-> FALSE, numerator |-> 0, denominator |-> 1]
    ELSE [raised |-> FALSE, numerator |-> r.num, denominator |-> r.den]

\* Usable without the test of the numerator
Usable_AnyFraction(r) == ~Fraction(r).raised

\* the body of the loop of lines 105-112 sets fps for this field
Usable(r) ==
    /\ ~Fraction(r).raised
    /\ Fraction(r).numerator # 0
    /\ Fraction(r).denominator # 0

\* float(f), in thousandths
FloatOf(r) == (Fraction(r).numerator * 1000) \div Fraction(r).denominator

\* for frac in (afr, rfr): the first usable one, else None
PickFps(afr, rfr) ==
    IF Usable(afr) THEN Some(FloatOf(afr))
    ELSE IF Usable(rfr) THEN Some(FloatOf(rfr))
    ELSE None

\* lines 115-121: float(fmt["duration"]) when the field is there
ParseDuration(field) ==
    IF field # None /\ The(field).text_ok THEN Some(The(field).millis) ELSE None

\* probe_video: sh raises when ffprobe fails (line 91 is outside the try);
\* output that is no JSON gives (None, None)
probe_video(out) ==
    IF out.rc # 0 THEN [raised |-> TRUE, fps |-> None, dur |-> None]
    ELSE IF ~out.json_ok THEN [raised |-> FALSE, fps |-> None, dur |-> None]
    ELSE [raised |-> FALSE,
          fps |-> PickFps(OrZeroRate(out.avg_frame_rate),
                          OrZeroRate(out.r_frame_rate)),
          dur |-> ParseDuration(out.duration)]

InitProbe ==
    /\ env = EnvComplete
    /\ HandlerIdle
    /\ probe_raw \in {Some(out) : out \in ProbeOutputs}
    /\ probe_res = None
    /\ scan_dir = None
    /\ scan_res = None
    /\ jobs = << >>
    /\ outdir = {}
    /\ install = None

Probe ==
    /\ probe_res = None
    /\ probe_res' = Some(probe_video(The(probe_raw)))
    /\ UNCHANGED <<env, pc, req, workdir_made, workdir_exists, cmds, profile,
                   pre_info, submit_resp, prompt_id, clock, wait_t0, queries,
                   last_resp, elapsed, result, out_local, uploads, err, ret,
                   rcs, wf0, wf, listing, probe_raw, scan_dir, scan_res, jobs,
                   outdir, install>>

NextProbe == Probe

SpecProbe == InitProbe /\ [][NextProbe]_vars

-----------------------------------------------------------------------------
(* tools/install_custom_nodes.py: main and checkout_exact_commit *)

\* the most lock items, and the greatest GIT_RETRIES
MaxItems == 2
MaxRetries == 1

\* line 168: int(os.environ.get("GIT_RETRIES", "2")); any integer is accepted
RetriesValues == -1 .. MaxRetries

\* one git command run for the lock item, and whether it exited with status 0;
\* install.log holds the commands of the current call of checkout_exact_commit
GitRun(item, cmd, ok) == [item |-> item, cmd |-> cmd, rc |-> Rc(ok)]

\* without a lock file there are no items; has_git matters for the items of
\* the lock file only
InstallInputs ==
    {st \in [pc : {"main"}, lock_exists : BOOLEAN, nitems : 0 .. MaxItems,
              retries : RetriesValues, has_git : [1 .. MaxItems -> BOOLEAN],
              idx : {0}, i : {0}, fetched : {FALSE}, log : {<< >>},
              pinned : {{}}, exit : {None}] :
        /\ ~st.lock_exists => st.nitems = 0
        /\ \A k \in 1 .. MaxItems : k > st.nitems => ~st.has_git[k]}

InitInstall ==
    /\ env = EnvComplete
    /\ HandlerIdle
    /\ probe_raw = None
    /\ probe_res = None
    /\ scan_dir = None
    /\ scan_res = None
    /\ jobs = << >>
    /\ outdir = {}
    /\ install \in InstallInputs

InstallUnchanged ==
    UNCHANGED <<env, pc, req, workdir_made, workdir_exists, cmds, profile,
                pre_info, submit_resp, prompt_id, clock, wait_t0, queries,
                last_resp, elapsed, result, out_local, uploads, err, ret, rcs,
                wf0, wf, listing, probe_raw, probe_res, scan_dir, scan_res,
                jobs, outdir>>

\* lines 182-184: the exception of checkout_exact_commit is caught, return 1
ReturnOne(st) == [st EXCEPT !.pc = "done", !.exit = Some(1)]

\* lines 170-180 and 90-92: the loop of main takes item k and enters
\* checkout_exact_commit; after the last item main returns 0.  With
\* retries + 1 <= 0 the clone loop has no pass and line 104 raises
EnterRepo(st, k) ==
    IF k > st.nitems THEN [st EXCEPT !.idx = k, !.pc = "done", !.exit = Some(0)]
    ELSE IF st.has_git[k] THEN [st EXCEPT !.idx = k, !.pc = "remote"]
    ELSE IF st.retries + 1 <= 0 THEN ReturnOne([st EXCEPT !.idx = k])
    ELSE [st EXCEPT !.idx = k, !.pc = "clone", !.i = 0]

\* the fallback of lines 121-125 running whether or not a fetch succeeded
RunFallback_Always(fetched) == TRUE

\* line 121: if not fetched
RunFallback(fetched) == ~fetched

\* lines 141-168: arguments and lock file; return 2 without a lock file,
\* return 0 for an empty one
StartMain ==
    /\ install.pc = "main"
    /\ install' = IF ~install.lock_exists
                  THEN [install EXCEPT !.pc = "done", !.exit = Some(2)]
                  ELSE EnterRepo(install, 1)
    /\ InstallUnchanged

\* lines 92-102: one pass of the clone loop
CloneAttempt ==
    /\ install.pc = "clone"
    /\ \E ok \in BOOLEAN :
         LET st == [install EXCEPT
                       !.log = Append(@, GitRun(install.idx, "clone", ok))]
         IN  install' = IF ok THEN [st EXCEPT !.pc = "remote"]
                        ELSE IF st.i >= st.retries THEN ReturnOne(st)
                        ELSE [st EXCEPT !.i = @ + 1]
    /\ InstallUnchanged

\* lines 107-112: remote remove (failure ignored), remote add (failure
\* raises), then the fetch loop is entered; it has no pass when
\* retries + 1 <= 0
EnsureOrigin ==
    /\ install.pc = "remote"
    /\ \E rm_ok \in BOOLEAN, add_ok \in BOOLEAN :
         LET st == [install EXCEPT
                       !.log = @ \o <<GitRun(install.idx, "remote_remove", rm_ok),
                                      GitRun(install.idx, "remote_add", add_ok)>>,
                       !.fetched = FALSE, !.i = 0]
         IN  install' = IF ~add_ok THEN ReturnOne(st)
                        ELSE IF st.retries + 1 <= 0
                        THEN [st EXCEPT !.pc = IF RunFallback(FALSE)
                                               THEN "fallback" ELSE "checkout"]
                        ELSE [st EXCEPT !.pc = "fetch"]
    /\ InstallUnchanged

\* lines 112-121: one pass of the shallow-fetch loop, and the test of fetched
\* when the loop is left
FetchAttempt ==
    /\ install.pc = "fetch"
    /\ \E ok \in BOOLEAN :
         LET st == [install EXCEPT
                       !.log = Append(@, GitRun(install.idx, "fetch_shallow", ok)),
                       !.fetched = ok]
         IN  install' = IF ~ok /\ st.i < st.retries
                        THEN [st EXCEPT !.i = @ + 1]
                        ELSE [st EXCEPT !.pc = IF RunFallback(ok)
                                               THEN "fallback" ELSE "checkout"]
    /\ InstallUnchanged

\* lines 122-125: fetch --unshallow, and fetch --all when that failed
Fallback ==
    /\ install.pc = "fallback"
    /\ \E un_ok \in BOOLEAN, all_ok \in BOOLEAN :
         install' = [install EXCEPT
             !.log = IF un_ok
                     THEN Append(@, GitRun(install.idx, "fetch_unshallow", TRUE))
                     ELSE @ \o <<GitRun(install.idx, "fetch_unshallow", FALSE),
                                 GitRun(install.idx, "fetch_all", all_ok)>>,
             !.pc = "checkout"]
    /\ InstallUnchanged

\* lines 128-131 and 181-184: checkout --force sha; when it fails main
\* returns 1, else rev-parse (failure ignored) and "[OK] ... pinned"
Checkout ==
    /\ install.pc = "checkout"
    /\ \E ok \in BOOLEAN, rev_ok \in BOOLEAN :
         install' =
             IF ~ok
             THEN ReturnOne([install EXCEPT
                      !.log = Append(@, GitRun(install.idx, "checkout", FALSE))])
             ELSE [install EXCEPT
                      !.log = @ \o <<GitRun(install.idx, "checkout", TRUE),
                                     GitRun(install.idx, "rev_parse", rev_ok)>>,
                      !.pinned = @ \cup {install.idx},
                      !.pc = "pinned"]
    /\ InstallUnchanged

\* line 170: the loop of main goes on to the next item
NextItem ==
    /\ install.pc = "pinned"
    /\ install' = EnterRepo([install EXCEPT !.log = << >>], install.idx + 1)
    /\ InstallUnchanged

NextInstall ==
    \/ StartMain
    \/ CloneAttempt
    \/ EnsureOrigin
    \/ FetchAttempt
    \/ Fallback
    \/ Checkout
    \/ NextItem

SpecInstall == InitInstall /\ [][NextInstall]_vars

TypeOK ==
    /\ env \in EnvValues
    /\ pc \in {"idle", "entered", "workdir", "try", "downloaded", "preprocessed",
               "copied", "bound", "polling", "completed", "resolved", "finally",
               "done"}
    /\ workdir_made \in BOOLEAN /\ workdir_exists \in BOOLEAN
    /\ queries \in Nat /\ uploads \in Nat /\ clock \in Nat
    /\ ret \in {"none", "error_object", "result", "raised"}

-----------------------------------------------------------------------------
(* Properties *)

\* the invocation has left handler
Ended == pc = "done"
\* wait_until_done was entered and has been left
WaitLeft == prompt_id # None /\ pc # "polling"
\* the response reports a terminal status (completed or error) for the handle
TerminalResp(r) ==
    /\ r.ok
    /\ r.entry # None
    /\ LET st == The(r.entry).status IN
         \/ st.completed = Some(TRUE)
         \/ st.status_str = Some("success")
         \/ st.status_str = Some("error")
\* the response reports successful completion for the handle
CompletedResp(r) ==
    /\ r.ok
    /\ r.entry # None
    /\ LET st == The(r.entry).status IN
         st.completed = Some(TRUE) \/ st.status_str = Some("success")
\* the response reports an explicit error status for the handle
ErrorResp(r) ==
    /\ r.ok
    /\ r.entry # None
    /\ The(r.entry).status.status_str = Some("error")

\* C1: an invocation that created the working directory /tmp/jobs/{job_id}
\* has removed it by the time it ends, on every exit path
C1_WorkdirRemovedOnEveryExit ==
    (Ended /\ workdir_made) => ~workdir_exists

\* C2: a failed status query is not fatal to wait_until_done: after a query
\* that failed the loop is still polling, or the deadline has ended it
C2_QueryFailureIsTransient ==
    (last_resp = Some(QueryFailure)) =>
        \/ pc = "polling"
        \/ err.kind = "TimeoutError"

\* C3: when wait_until_done is left without any query having observed a
\* terminal status, it is left by a timeout error that carries the job
\* handle, raised when the time since polling started is greater than
\* timeout_sec and at most timeout_sec plus one poll interval; after the
\* timeout no further status query is issued
C3_TimeoutWithinOnePollInterval ==
    /\ [](  (WaitLeft /\ last_resp # None /\ ~TerminalResp(The(last_resp))) =>
              /\ err.kind = "TimeoutError"
              /\ err.handle = prompt_id
              /\ elapsed # None
              /\ The(elapsed) > req.timeout_sec
              /\ The(elapsed) <= req.timeout_sec + Poll )
    /\ [][err.kind = "TimeoutError" => queries' = queries]_vars

\* how comfy_post_prompt followed by wait_until_done ended
JobOutcome ==
    IF result # None THEN "completed"
    ELSE IF err.origin = "comfy_post_prompt" THEN "failed"
    ELSE IF err.origin = "wait_until_done" /\ err.kind = "RuntimeError" THEN "failed"
    ELSE IF err.origin = "wait_until_done" /\ err.kind = "TimeoutError" THEN "timed_out"
    ELSE "other"

\* C4: once the graph was submitted and the poll loop is not running, the
\* JobRunner has ended in exactly one of completed, failed, timed_out
C4_OnlyThreeOutcomes ==
    (submit_resp # None /\ pc # "polling") =>
        JobOutcome \in {"completed", "failed", "timed_out"}

\* the poll loop is always left (checked under FairSpec)
PollLoopIsLeft == (pc = "polling") ~> (pc # "polling")

\* C5: wait_until_done has returned a value only if its latest status query
\* answered with an entry for the handle that reports successful completion,
\* and the value returned is that entry; with no entry, or an entry that
\* reports pending or running, it has not returned
C5_ReturnsOnlyTheCompletedEntry ==
    /\ result # None =>
         /\ last_resp # None
         /\ CompletedResp(The(last_resp))
         /\ result = The(last_resp).entry
    /\ (last_resp # None /\ The(last_resp).ok /\ ~CompletedResp(The(last_resp))) =>
         result = None

\* C5 witness: the third query reported completion after two that did not,
\* and wait_until_done returned its entry
C5_Witness ==
    /\ queries = 3
    /\ result = Some([status |-> StCompleted, outputs |-> MetaVideo])
    /\ pc = "completed"

C7_MissingHandleIsFatal ==
    (submit_resp = Some([ok |-> TRUE, prompt_id |-> None])) =>
        /\ pc \in {"finally", "done"}
        /\ err.kind # "none"
        /\ err.origin = "comfy_post_prompt"
        /\ prompt_id = None
        /\ queries = 0
        /\ uploads = 0

\* C7 witness: the invocation ended after an acknowledgement without handle
C7_Witness ==
    /\ submit_resp = Some([ok |-> TRUE, prompt_id |-> None])
    /\ Ended /\ ret = "raised"

\* the ffmpeg commands among the commands run
FfmpegCmds == SelectSeq(cmds, LAMBDA c : c.prog = "ffmpeg")
\* frame rate present and greater than the cap plus epsilon
FpsOverCap(p) == p.fps_in # None /\ The(p.fps_in) > FPS_CAP * 1000 + FpsEps
\* duration present and greater than the maximum plus epsilon
DurOverMax(p) == p.dur_in # None /\ The(p.dur_in) > MAX_SECONDS * 1000 + DurEps
\* the pass-through decision
IsPassThrough(i) ==
    /\ i.path = LocalIn
    /\ ~i.downsampled /\ ~i.trimmed /\ ~i.transcoded /\ ~i.remuxed

\* C8: preprocess_video yields the pass-through decision (source path, no
\* ffmpeg command, all four flags false) exactly when neither the frame rate
\* is over the cap nor the duration over the maximum
C8_PassThroughIffNoNeed ==
    profile # None =>
        LET p == The(profile) IN
        IF ~FpsOverCap(p) /\ ~DurOverMax(p)
        THEN /\ pre_info # None
             /\ IsPassThrough(The(pre_info))
             /\ FfmpegCmds = << >>
        ELSE /\ FfmpegCmds # << >>
             /\ pre_info # None =>
                  /\ ~IsPassThrough(The(pre_info))
                  /\ The(pre_info).path # LocalIn

\* C8 witness: frame rate and duration both absent, pass-through returned
C8_Witness ==
    /\ profile = Some([fps_in |-> None, dur_in |-> None])
    /\ pre_info # None
    /\ IsPassThrough(The(pre_info))
    /\ pc = "preprocessed"

\* C9: when the duration is over the maximum and the frame rate is not over
\* the cap, exactly one ffmpeg command is run, the stream-copy truncation to
\* MAX_SECONDS, and the decision returned has the destination path and the
\* flags trimmed, remuxed, not transcoded, not downsampled
C9_TrimOnlyBranch ==
    (profile # None /\ DurOverMax(The(profile)) /\ ~FpsOverCap(The(profile))) =>
        /\ Len(FfmpegCmds) = 1
        /\ FfmpegCmds[1].cv = "copy" /\ FfmpegCmds[1].ca = "copy"
        /\ FfmpegCmds[1].vf_fps = None
        /\ FfmpegCmds[1].t = Some(MAX_SECONDS)
        /\ FfmpegCmds[1].src = LocalIn /\ FfmpegCmds[1].dst = LocalPre
        /\ pre_info # None =>
             LET i == The(pre_info) IN
             /\ i.path = LocalPre
             /\ i.trimmed /\ i.remuxed /\ ~i.transcoded /\ ~i.downsampled

\* C9 witness: absent frame rate, 20 s, trimmed decision returned
C9_Witness ==
    /\ profile = Some([fps_in |-> None, dur_in |-> Some(20000)])
    /\ pre_info # None
    /\ The(pre_info).trimmed
    /\ Len(FfmpegCmds) = 1

\* C10: when the frame rate is over the cap, every ffmpeg command run is a
\* re-encode to FPS_CAP writing the destination path, it carries the
\* duration limit exactly when the duration is over the maximum, and the
\* decision returned has the destination path and the flags downsampled,
\* transcoded, not remuxed, and trimmed equal to duration-over-maximum
C10_ReencodeBranch ==
    (profile # None /\ FpsOverCap(The(profile))) =>
        /\ Len(FfmpegCmds) \in {1, 2}
        /\ \A k \in 1 .. Len(FfmpegCmds) :
             /\ FfmpegCmds[k].cv = "libx264"
             /\ FfmpegCmds[k].vf_fps = Some(FPS_CAP)
             /\ FfmpegCmds[k].src = LocalIn /\ FfmpegCmds[k].dst = LocalPre
             /\ FfmpegCmds[k].t = IF DurOverMax(The(profile))
                                  THEN Some(MAX_SECONDS) ELSE None
        /\ pre_info # None =>
             LET i == The(pre_info) IN
             /\ i.path = LocalPre
             /\ i.downsampled /\ i.transcoded /\ ~i.remuxed
             /\ i.trimmed = DurOverMax(The(profile))

\* C10 witness: 60 fps and 20 s, re-encode with trim returned
C10_Witness ==
    /\ profile = Some([fps_in |-> Some(60000), dur_in |-> Some(20000)])
    /\ pre_info # None
    /\ The(pre_info).downsampled /\ The(pre_info).trimmed
    /\ The(pre_info).transcoded

\* C10 witness of the other case: 60 fps and no trim needed
C10_WitnessNoTrim ==
    /\ profile = Some([fps_in |-> Some(60000), dur_in |-> Some(15000)])
    /\ pre_info # None
    /\ ~The(pre_info).trimmed

-----------------------------------------------------------------------------
(* Binding of the workflow document *)

\* the three concerns: fixed identifier, type tag (comments of lines 415-423),
\* input slot
Concerns ==
    {[id |-> "25", tag |-> "VHS_LoadVideo", slot |-> "video"],
     [id |-> "30", tag |-> "PrimitiveStringMultiline", slot |-> "string"],
     [id |-> "13", tag |-> "VHS_VideoCombine", slot |-> "filename_prefix"]}

\* the value the job binds for a concern
JobValue(c) ==
    IF c.id = "25" THEN ComfyInputName
    ELSE IF c.id = "30" THEN req.remove_text ELSE OutputPrefix

\* nodes of the document carrying the type tag
Tagged(doc, tag) == {n \in DOMAIN doc : doc[n].class_type = tag}

\* the node of a concern can be located: under the fixed identifier, or by tag
Locatable(doc, c) == c.id \in DOMAIN doc \/ Tagged(doc, c.tag) # {}

VideoLoader == CHOOSE c \in Concerns : c.id = "25"

Submitted == submit_resp # None

\* C11: a template with no node locatable as the video loader (neither under
\* "25" nor by the tag VHS_LoadVideo) makes binding fail with an error, and
\* the graph is never submitted to the engine.
C11_NoLoaderIsFatal ==
    (wf0 # None /\ ~Locatable(The(wf0), VideoLoader)) =>
        /\ err # NoErr
        /\ ~Submitted

\* the input slots binding may change: the slot of a concern in the node
\* under the concern's identifier
Targets == {<<c.id, c.slot>> : c \in Concerns}

\* every node and every input slot outside Targets is the same in both
SameOutsideTargets(before, after) ==
    /\ DOMAIN after = DOMAIN before
    /\ Cardinality(DOMAIN after) = Cardinality(DOMAIN before)
    /\ \A n \in DOMAIN before :
         /\ after[n].class_type = before[n].class_type
         /\ after[n].has_inputs = before[n].has_inputs
         /\ \A k \in DOMAIN before[n].inputs :
              /\ k \in DOMAIN after[n].inputs
              /\ <<n, k>> \notin Targets =>
                    after[n].inputs[k] = before[n].inputs[k]
         /\ \A k \in DOMAIN after[n].inputs :
              k \in DOMAIN before[n].inputs \/ <<n, k>> \in Targets

\* C12: binding leaves the node identifiers and the node count unchanged and
\* changes only the slots video of node "25", string of node "30" and
\* filename_prefix of node "13", which then hold the job's values; a document
\* without the text node or the writer node is bound without raising and is
\* left as it was for that concern.
C12_BindingFrame ==
    wf0 # None =>
        /\ wf # None
        /\ pc = "bound" => err = NoErr
        /\ SameOutsideTargets(The(wf0), The(wf))
        /\ \A c \in Concerns :
             IF c.id \in DOMAIN The(wf0) /\ The(wf0)[c.id].has_inputs
             THEN The(wf)[c.id].inputs[c.slot] = JobValue(c)
             ELSE c.id \in DOMAIN The(wf0) => The(wf)[c.id] = The(wf0)[c.id]

\* bound from a template with the loader but without writer and text inputs
C12_Witness ==
    /\ pc = "bound"
    /\ wf0 = Some(TplLoaderOnly)
    /\ The(wf)["25"].inputs.video = ComfyInputName
    /\ The(wf)["25"].inputs.force_rate = "0"
    /\ The(wf)["30"] = TplLoaderOnly["30"]

\* bound from the standard template: the three slots hold the job's values
C12_WitnessStandard ==
    /\ pc = "bound"
    /\ wf0 = Some(TplStandard)
    /\ The(wf)["30"].inputs.string = "person"
    /\ The(wf)["13"].inputs.filename_prefix = OutputPrefix
    /\ The(wf)["13"].inputs.frame_rate = "30"

\* C13: a node that is not under its fixed identifier but carries the matching
\* type tag is still located, and the job's value is bound into it.
C13_TagFallbackBinds ==
    wf0 # None =>
        \A c \in Concerns :
            (c.id \notin DOMAIN The(wf0) /\ Tagged(The(wf0), c.tag) # {}) =>
                \E n \in Tagged(The(wf0), c.tag) :
                    /\ The(wf)[n].has_inputs
                    /\ c.slot \in DOMAIN The(wf)[n].inputs
                    /\ The(wf)[n].inputs[c.slot] = JobValue(c)


-----------------------------------------------------------------------------
(* Resolution of the output file *)

\* the name starts with this job's prefix and ends with the video extension
MatchesJob(f) ==
    StartsWith(f.name, output_prefix(JobTokens)) /\ EndsWithMp4(f.name)

\* nothing below the directory matches this job, or there is no directory
NoMatchAnywhere(dir) == ~dir.is_dir \/ \A f \in dir.files : ~MatchesJob(f)

\* the engine reported a completed status to wait_until_done
CompletedStatus ==
    /\ result # None
    /\ \/ The(result).status.completed = Some(TRUE)
       \/ The(result).status.status_str = Some("success")

\* C14: when the engine reports completion and no file of the output directory
\* matches this job, find_latest_output raises out of handler, nothing is
\* uploaded and no result is returned; an upload happens at most once, and only
\* after a completed status and with a resolved file that exists and matches.
C14_NoOutputIsFatal ==
    /\ uploads <= 1
    /\ uploads > 0 =>
          /\ CompletedStatus
          /\ out_local # None
          /\ The(out_local) \in The(listing).files
          /\ MatchesJob(The(out_local))
    /\ (listing # None /\ NoMatchAnywhere(The(listing))) =>
          /\ CompletedStatus
          /\ out_local = None
          /\ uploads = 0
          /\ ret # "result"
          /\ err = Raise("RuntimeError", "find_latest_output")
          /\ Ended => ret = "raised"

\* completed, only files of another job and of another extension: raised
C14_Witness ==
    /\ Ended
    /\ CompletedStatus
    /\ listing = Some(Dir(TRUE, {FPng, FOther}))
    /\ ret = "raised"
    /\ uploads = 0

\* completed, the newest matching file resolved and uploaded once
C14_WitnessUploaded ==
    /\ Ended
    /\ out_local = Some(F2)
    /\ uploads = 1
    /\ ret = "result"

\* the files below the directory, subfolders included, that match this job
\* and can be read
MatchesInTree(dir) == {f \in dir.files : MatchesJob(f) /\ f.stat_ok}

\* C15: without metadata the resolver returns the newest of all the matching
\* files of the output directory tree, and never a file that does not match.
C15_NewestMatchInTree ==
    scan_res # None =>
        LET dir == The(scan_dir)
            res == The(scan_res)
        IN  /\ (dir.is_dir /\ MatchesInTree(dir) # {}) =>
                  /\ ~res.raised
                  /\ The(res.file) \in MatchesInTree(dir)
                  /\ \A g \in MatchesInTree(dir) : g.mtime <= The(res.file).mtime
            /\ ~res.raised => MatchesJob(The(res.file))

\* C16: when the completed entry reports for the writer node a file name with
\* the video extension, and that file is in the output area, the resolved
\* output is that file, whatever the directory scan finds.
C16_MetadataPreferred ==
    (listing # None /\ result # None) =>
        \A e \in The(result).outputs :
            (/\ EndsWithMp4(e.filename)
             /\ e.subfolder = ""
             /\ \E f \in The(listing).files :
                    f.name = e.filename /\ ~f.sub /\ f.stat_ok) =>
                /\ out_local # None
                /\ The(out_local).name = e.filename
                /\ ~The(out_local).sub


-----------------------------------------------------------------------------
(* Concurrent invocations *)

\* C17: two concurrent invocations with distinct job identifiers have distinct
\* working directories, input file names and output prefixes, and the file an
\* invocation resolves and uploads is never one the engine wrote for the other.
C17_JobsAreIsolated ==
    \A i \in Invocations : \A k \in Invocations \ {i} :
        (jobs[i].id # None /\ jobs[k].id # None) =>
            /\ WorkdirOf(The(jobs[i].id)) # WorkdirOf(The(jobs[k].id))
            /\ InputFileOf(The(jobs[i].id)) # InputFileOf(The(jobs[k].id))
            /\ output_prefix(The(jobs[i].id)) # output_prefix(The(jobs[k].id))
            /\ jobs[i].out # None => The(jobs[i].out).owner = i


-----------------------------------------------------------------------------
(* Validation of the request *)

\* C18: a request whose input_key is missing or empty, whatever its other
\* fields (any timeout_sec value included), gets the error object, without an
\* exception and before the working directory, storage or the engine is touched.
C18_MissingKeyIsStructuredError ==
    (pc # "idle" /\ MissingInputKey(req.input_key)) =>
        /\ pc = "done"
        /\ ret = "error_object"
        /\ err = NoErr
        /\ ~workdir_made
        /\ submit_resp = None
        /\ uploads = 0


-----------------------------------------------------------------------------
(* The two attempts of the re-encode *)

\* positions in the command log of the re-encode commands (video re-encoded)
EncodeIdx ==
    {i \in DOMAIN cmds : cmds[i].prog = "ffmpeg" /\ cmds[i].cv = "libx264"}
FirstEncode == CHOOSE i \in EncodeIdx : \A k \in EncodeIdx : i <= k

\* C19: the re-encode runs at most two commands, both with faststart and the
\* same destination; the first copies the audio; the second, re-encoding the
\* audio, is run exactly when the first failed; when both fail the job fails
\* with the error of the second command.
C19_ReencodeFallback ==
    /\ Len(rcs) = Len(cmds)
    /\ Cardinality(EncodeIdx) <= 2
    /\ \A i \in EncodeIdx : cmds[i].faststart /\ cmds[i].dst = LocalPre
    /\ EncodeIdx # {} =>
          /\ cmds[FirstEncode].ca = "copy"
          /\ \A i \in EncodeIdx \ {FirstEncode} :
                /\ i = FirstEncode + 1
                /\ cmds[i].ca = "aac"
          /\ rcs[FirstEncode] = 0 <=> EncodeIdx = {FirstEncode}
          /\ (EncodeIdx # {FirstEncode} /\ rcs[FirstEncode + 1] # 0) =>
                /\ err.kind = "RuntimeError"
                /\ err.payload = Some(cmds[FirstEncode + 1])
                /\ pre_info = None
                /\ submit_resp = None
                /\ Ended => ret = "raised"

\* both attempts failed and the invocation has ended
C19_Witness ==
    /\ Ended
    /\ Cardinality(EncodeIdx) = 2
    /\ rcs[FirstEncode] = 1
    /\ rcs[FirstEncode + 1] = 1
    /\ ret = "raised"

\* the audio copy failed, the second attempt succeeded
C19_WitnessSecondSucceeds ==
    /\ pre_info # None
    /\ Cardinality(EncodeIdx) = 2
    /\ rcs[FirstEncode] = 1
    /\ rcs[FirstEncode + 1] = 0

\* the audio copy succeeded: one command
C19_WitnessFirstSucceeds ==
    /\ pre_info # None
    /\ Cardinality(EncodeIdx) = 1
    /\ rcs[FirstEncode] = 0


-----------------------------------------------------------------------------
(* probe_video *)

\* the field is there, is a rational, and neither number is zero
GoodRate(field) ==
    /\ field # None
    /\ The(field).text_ok
    /\ The(field).num # 0
    /\ The(field).den # 0
RateValue(field) == (The(field).num * 1000) \div The(field).den

\* C20: when ffprobe ran, probe_video does not raise; the frame rate is the
\* average rate when its numerator and denominator are non-zero, else the
\* real-time rate when that one is usable, else absent; the duration is the
\* number of the duration field, absent when the field is missing or is no
\* number; an unparsable field leaves the other field as it is.
C20_ProbeFallback ==
    (probe_res # None /\ The(probe_raw).rc = 0) =>
        LET out == The(probe_raw)
            res == The(probe_res)
        IN  /\ ~res.raised
            /\ out.json_ok =>
                  /\ res.fps =
                        IF GoodRate(out.avg_frame_rate)
                        THEN Some(RateValue(out.avg_frame_rate))
                        ELSE IF GoodRate(out.r_frame_rate)
                        THEN Some(RateValue(out.r_frame_rate))
                        ELSE None
                  /\ res.dur =
                        IF out.duration # None /\ The(out.duration).text_ok
                        THEN Some(The(out.duration).millis)
                        ELSE None

\* average rate 0/1, real-time rate 30000/1001, duration "N/A": the frame
\* rate comes from the real-time rate and only the duration is absent
C20_Witness ==
    /\ probe_res # None
    /\ The(probe_raw).rc = 0
    /\ The(probe_raw).json_ok
    /\ The(probe_raw).avg_frame_rate = Some(Rate(TRUE, 0, 1))
    /\ The(probe_raw).r_frame_rate = Some(Rate(TRUE, 30000, 1001))
    /\ The(probe_raw).duration = Some(Duration(FALSE, 0))
    /\ The(probe_res) = [raised |-> FALSE, fps |-> Some(29970), dur |-> None]

\* both rates unparsable, the duration a number: only the frame rate is absent
C20_WitnessNoRate ==
    /\ probe_res # None
    /\ The(probe_raw).rc = 0
    /\ The(probe_raw).json_ok
    /\ The(probe_raw).avg_frame_rate = Some(Rate(FALSE, 0, 0))
    /\ The(probe_raw).r_frame_rate = None
    /\ The(probe_res) = [raised |-> FALSE, fps |-> None, dur |-> Some(12500)]


-----------------------------------------------------------------------------
(* Order of the status test and the deadline test *)

\* the last query was sent after the deadline: the deadline is below zero, or
\* the sleep before the query ended after it
LateQuery ==
    \/ req.timeout_sec < 0
    \/ queries >= 2 /\ elapsed # None /\ The(elapsed) + Poll > req.timeout_sec

\* C21: wait_until_done sends at least one status query whatever timeout_sec
\* is, and the status of a response is examined before the deadline: a
\* completed status is returned and an error status raises the engine error,
\* never the timeout, also when the query was sent after the deadline.
C21_StatusBeforeDeadline ==
    WaitLeft =>
        /\ queries >= 1
        /\ last_resp # None
        /\ CompletedResp(The(last_resp)) =>
              /\ result = The(last_resp).entry
              /\ err.kind # "TimeoutError"
        /\ ErrorResp(The(last_resp)) =>
              /\ result = None
              /\ err.kind = "RuntimeError"
              /\ err.origin = "wait_until_done"
        /\ err.kind = "TimeoutError" => ~TerminalResp(The(last_resp))

\* timeout_sec below zero: the first query reports completed and is returned
C21_Witness ==
    /\ pc = "completed"
    /\ req.timeout_sec = -1
    /\ queries = 1
    /\ LateQuery
    /\ CompletedResp(The(last_resp))

\* timeout_sec zero: the second query, sent after the sleep, reports an error
C21_WitnessLateError ==
    /\ WaitLeft
    /\ req.timeout_sec = 0
    /\ queries = 2
    /\ LateQuery
    /\ ErrorResp(The(last_resp))
    /\ err.kind = "RuntimeError"


-----------------------------------------------------------------------------
(* Order and retries of checkout_exact_commit *)

\* positions in the log of the runs of a command for lock item k
RunsOf(k, cmd) ==
    {p \in DOMAIN install.log :
        install.log[p].item = k /\ install.log[p].cmd = cmd}
Succeeded(p) == install.log[p].rc = 0
FetchRuns(k) ==
    RunsOf(k, "fetch_shallow") \cup RunsOf(k, "fetch_unshallow")
        \cup RunsOf(k, "fetch_all")
FallbackRuns(k) == RunsOf(k, "fetch_unshallow") \cup RunsOf(k, "fetch_all")
\* the runs for item k of any command but the clone
RunsAfterClone(k) ==
    {p \in DOMAIN install.log :
        install.log[p].item = k /\ install.log[p].cmd # "clone"}
\* main has returned 1 at lock item k
StoppedAt(k) ==
    /\ install.pc = "done"
    /\ install.exit = Some(1)
    /\ install.idx = k
    /\ \A p \in DOMAIN install.log : install.log[p].item <= k

\* checkout_exact_commit has ended for lock item k
FinishedItem(k) ==
    /\ k <= install.nitems
    /\ install.idx = k
    /\ install.pc \in {"pinned", "done"}
\* the item had no .git directory and no clone attempt succeeded
CloneFailed(k) ==
    ~install.has_git[k] /\ \A p \in RunsOf(k, "clone") : ~Succeeded(p)
\* git remote add origin failed (line 108 raises)
RemoteAddFailed(k) == \E p \in RunsOf(k, "remote_add") : ~Succeeded(p)
CheckoutFailed(k) == \E p \in RunsOf(k, "checkout") : ~Succeeded(p)

\* C22 as stated: whenever the clone did not fail, the forced checkout is
\* attempted exactly once, and main stops with exit code 1 at an item only
\* because its clone or its checkout failed.
C22_CheckoutExactlyOnce ==
    \A k \in 1 .. MaxItems :
        /\ (FinishedItem(k) /\ ~CloneFailed(k)) =>
              Cardinality(RunsOf(k, "checkout")) = 1
        /\ StoppedAt(k) => (CloneFailed(k) \/ CheckoutFailed(k))

\* C22, amended: for every lock item: the clone runs only without a .git
\* directory, at most retries+1 times, and when no attempt succeeds nothing
\* else is run and main stops; the shallow fetch runs at most retries+1 times
\* and stops at its first success; the full-fetch fallback runs only when no
\* shallow fetch succeeded; the forced checkout runs at most once, after every
\* fetch, and exactly once unless the clone or git remote add failed; main
\* returns 1 at an item exactly when its clone, its remote add or its
\* checkout failed.
C22_OrderAndRetries ==
    \A k \in 1 .. MaxItems :
        /\ RunsOf(k, "clone") # {} => ~install.has_git[k]
        /\ Cardinality(RunsOf(k, "clone")) <= install.retries + 1
        /\ \A p \in RunsOf(k, "clone") :
              Succeeded(p) => \A q \in RunsOf(k, "clone") : q <= p
        /\ (\A p \in RunsOf(k, "clone") : ~Succeeded(p)) =>
              /\ ~install.has_git[k] => RunsAfterClone(k) = {}
              /\ Cardinality(RunsOf(k, "clone")) = install.retries + 1 =>
                    (\/ install.has_git[k]
                     \/ install.idx < k
                     \/ k > install.nitems
                     \/ StoppedAt(k))
        /\ \A p \in RunsAfterClone(k) : \A q \in RunsOf(k, "clone") : q < p
        /\ Cardinality(RunsOf(k, "fetch_shallow")) <= install.retries + 1
        /\ \A p \in RunsOf(k, "fetch_shallow") :
              Succeeded(p) => \A q \in RunsOf(k, "fetch_shallow") : q <= p
        /\ FallbackRuns(k) # {} =>
              /\ \A p \in RunsOf(k, "fetch_shallow") :
                    /\ ~Succeeded(p)
                    /\ \A q \in FallbackRuns(k) : p < q
              /\ Cardinality(RunsOf(k, "fetch_shallow")) = install.retries + 1
                    \/ install.retries + 1 <= 0
        /\ Cardinality(RunsOf(k, "checkout")) <= 1
        /\ \A p \in RunsOf(k, "checkout") :
              /\ FetchRuns(k) # {}
              /\ \A q \in FetchRuns(k) : q < p
              /\ ~Succeeded(p) => StoppedAt(k)
        /\ (install.idx > k /\ k <= install.nitems) => k \in install.pinned
        /\ (k \in install.pinned /\ install.idx = k) =>
              \E p \in RunsOf(k, "checkout") : Succeeded(p)
        /\ FinishedItem(k) =>
              /\ Cardinality(RunsOf(k, "checkout")) = 1 <=>
                    ~(CloneFailed(k) \/ RemoteAddFailed(k))
              /\ RemoteAddFailed(k) => (FetchRuns(k) = {} /\ StoppedAt(k))
              /\ StoppedAt(k) <=>
                    (CloneFailed(k) \/ RemoteAddFailed(k) \/ CheckoutFailed(k))

\* with GIT_RETRIES=1: both shallow fetches failed, the fallback ran, the
\* checkout failed and main returned 1 at the first item
C22_Witness ==
    /\ install.retries = 1
    /\ Cardinality(RunsOf(1, "fetch_shallow")) = 2
    /\ FallbackRuns(1) # {}
    /\ \E p \in RunsOf(1, "checkout") : ~Succeeded(p)
    /\ StoppedAt(1)

\* both clone attempts failed: main returned 1 and ran nothing else
C22_WitnessCloneFails ==
    /\ install.retries = 1
    /\ Cardinality(RunsOf(1, "clone")) = 2
    /\ \A p \in RunsOf(1, "clone") : ~Succeeded(p)
    /\ StoppedAt(1)
    /\ Len(install.log) = 2

\* two items pinned: the second clone attempt and the first shallow fetch
\* succeeded for the second item
C22_WitnessPinned ==
    /\ install.pc = "pinned"
    /\ install.pinned = {1, 2}
    /\ Cardinality(RunsOf(2, "clone")) = 2
    /\ Cardinality(RunsOf(2, "fetch_shallow")) = 1
    /\ FallbackRuns(2) = {}

\* git remote add failed for an item that has a .git directory: no fetch, no
\* checkout, main returned 1
C22_WitnessRemoteAddFails ==
    /\ install.has_git[1]
    /\ RemoteAddFailed(1)
    /\ StoppedAt(1)
    /\ RunsOf(1, "checkout") = {}


====
